---- MODULE Spec2Model ----
(***************************************************************************)
(* A model of gnome-wallpape-rs (src/main.rs): the wallpaper rotation      *)
(* tool whose whole state is a TOML config file.  Every invocation of the  *)
(* binary (run, next, toggle, current, with the optional --active and      *)
(* --duration flags) is a sequential process stepping through main() and   *)
(* the function of its subcommand; the config file, the desktop background *)
(* and the directory listing are the environment it acts on.               *)
(*                                                                         *)
(* Option<T> is modelled as a sequence: None is <<>>, Some(v) is <<v>>.    *)
(* Vec<T> is a sequence; Rust's index i is the sequence's index i + 1.     *)
(* A wallpaper URI "file://<dir>/<file>" is the token string               *)
(* <<"file://", dir, file>>.                                               *)
(***************************************************************************)
EXTENDS Naturals, Integers, Sequences, FiniteSets, TLC

\* ------------------------------------------------------------------ bounds
\* Longest `dirs` list of a config file.
MaxDirs == 2
\* Invocations of the binary in one behaviour.
MaxInvocations == 3
\* Iterations of the `run` loop after which only termination from outside remains.
MaxCycles == 2

\* ------------------------------------------------------------- environment
\* The directories of the file system and the files `<dir>/*.*` matches in each.
Directories == {"a", "b", "c"}

Files(dir) ==
    CASE dir = "a" -> {"x.png"}
      [] dir = "b" -> {"y.png", "z.jpg"}
      [] OTHER     -> {}

\* ----------------------------------------------------------------- options
None == <<>>

Some(v) == <<v>>

unwrap_or(o, d) == IF o = None THEN d ELSE o[1]

\* ---------------------------------------------------------------- variables
VARIABLES
    file,       \* the config file's record: dirs, duration, active_dir, current, next
    pc,         \* the running process's position ("idle": none started yet)
    cmd,        \* its subcommand
    cfg,        \* the `config` local to run / next / toggle
    cur,        \* the `current` local to run / next: the URI get_next returned
    gs,         \* how the gsettings call of this cycle ended
    wallpaper,  \* the desktop's picture-uri
    interval,   \* the minutes the run loop sleeps (set when it parses the duration)
    err,        \* the error that ended the invocation
    out,        \* what the invocation printed
    inv,        \* invocations started
    cycles,     \* run-loop iterations completed by this invocation
    row_start,  \* active_dir read by the first toggle of the current row of toggles
    row_len,    \* toggles of the current row that persisted their index
    edit        \* the last edit made to the file from outside, if any

vars == <<file, pc, cmd, cfg, cur, gs, wallpaper, interval, err, out, inv, cycles,
          row_start, row_len, edit>>

\* ------------------------------------------------------------ pure functions
\* The lists of at most MaxDirs distinct directories, at least one.
DirLists ==
    {s \in UNION {[1..n -> Directories] : n \in 1..MaxDirs} :
        \A i, j \in 1..Len(s) : i # j => s[i] # s[j]}

\* humanize_rs::duration::parse, in minutes; -1 when the string does not parse.
parse_duration(s) ==
    CASE s = "10m" -> 10
      [] s = "5m"  -> 5
      [] s = "1h"  -> 60
      [] OTHER     -> -1

parse_config_keep(f) == [f EXCEPT !.active_dir = Some(unwrap_or(f.active_dir, 0))]

\* parse_config: the record read, with duration and active_dir defaulted.
parse_config(f) ==
    [f EXCEPT !.duration   = Some(unwrap_or(f.duration, "10m")),
              !.active_dir = Some(unwrap_or(f.active_dir, 0))]

\* select_new: the URIs it may return for `dir`; none when nothing matches.
select_new(dir) == {<<"file://", dir, f>> : f \in Files(dir)}

cache_next_first(dirs) ==
    {nx \in [1..Len(dirs) -> UNION {select_new(d) : d \in Directories}] :
        \A i \in 1..Len(dirs) : nx[i] \in select_new(dirs[1])}

\* cache_next's loop: the `next` vectors it may build, one pick per directory;
\* none when some directory yields no pick (select_new fails).
cache_next_picks(dirs) ==
    {nx \in [1..Len(dirs) -> UNION {select_new(d) : d \in Directories}] :
        \A i \in 1..Len(dirs) : nx[i] \in select_new(dirs[i])}

\* get_next's index expression stays inside the vector it indexes (it panics otherwise).
get_next_in_range(config) ==
    LET active_dir == unwrap_or(config.active_dir, 0) IN
    IF config.next # None
    THEN active_dir < Len(config.next[1])
    ELSE active_dir < Len(config.dirs)

get_next_first(config) ==
    IF config.next # None
    THEN {config.next[1][1]}
    ELSE select_new(config.dirs[1])

\* get_next on the parsed config, its index in range: the URIs it may return (the
\* cached one, or any select_new may pick; none when select_new fails).
get_next(config) ==
    LET active_dir == unwrap_or(config.active_dir, 0) IN
    IF config.next # None
    THEN {config.next[1][active_dir + 1]}
    ELSE select_new(config.dirs[active_dir + 1])

toggle_index_off_by_one(active_dir, len) ==
    IF active_dir + 1 <= len THEN active_dir + 1 ELSE 0

\* toggle's new index: the next one, wrapping around.
toggle_index(active_dir, len) ==
    IF active_dir + 1 < len THEN active_dir + 1 ELSE 0

\* current: the URI with every "file://" removed.
current(config) ==
    IF config.current = None THEN None
    ELSE Some(SelectSeq(config.current[1], LAMBDA t : t # "file://"))

AfterError_retry(c) == IF c = "run" THEN "run_parse" ELSE "exit"

\* Where an Err leaves the process: `?` returns it from main, out of the loop too.
AfterError(c) == "exit"

\* set_wallpaper returns Err only when gsettings could not be run: `status()` is Ok
\* whatever the exit status, and the status is dropped.
set_wallpaper_fails(outcome) == outcome = "spawn_failed"

\* A `config` local not yet assigned.
NoConfig ==
    [dirs |-> <<>>, duration |-> None, active_dir |-> None, current |-> None,
     next |-> None]

\* ------------------------------------------------------------------- Init
TypeOK ==
    /\ file.dirs \in UNION {[1..n -> Directories] : n \in 0..MaxDirs}
    /\ pc \in {"idle", "run_parse", "run_get_next", "run_set", "run_save",
               "run_cache", "run_sleep", "run_sleeping", "next_parse",
               "next_get_next", "next_set", "next_save", "next_cache", "next_done",
               "toggle_parse", "toggle_write", "exit"}
    /\ cmd \in {"none", "run", "next", "toggle", "current"}
    /\ err \in {"none", "ConfigError", "SelectionError", "ApplyError",
                "DurationError", "ArgError", "panic"}
    /\ gs \in {"none", "ok", "nonzero", "spawn_failed"}
    /\ inv \in 0..MaxInvocations
    /\ cycles \in 0..MaxCycles
    /\ row_len \in 0..MaxInvocations

\* A config file as its user writes it: the directories, perhaps a duration and an
\* active directory of the list; `current` and `next` are the tool's to fill in.
Init ==
    /\ \E dirs \in DirLists, du \in {None, Some("1h")},
          ad \in {None} \cup {Some(i) : i \in 0..(MaxDirs - 1)} :
          /\ ad # None => ad[1] < Len(dirs)
          /\ file = [dirs |-> dirs, duration |-> du, active_dir |-> ad,
                     current |-> None, next |-> None]
    /\ pc = "idle"
    /\ cmd = "none"
    /\ cfg = NoConfig
    /\ cur = <<>>
    /\ gs = "none"
    /\ wallpaper = <<>>
    /\ interval = 0
    /\ err = "none"
    /\ out = None
    /\ inv = 0
    /\ cycles = 0
    /\ row_start = 0
    /\ row_len = 0
    /\ edit = None

\* ----------------------------------------------------------------- actions
\* The process ends and its locals with it.
Gone ==
    /\ cfg' = NoConfig
    /\ cur' = <<>>
    /\ gs' = "none"
    /\ interval' = 0
    /\ cycles' = 0
    /\ edit' = None

\* An Err (or a panic) of kind k, propagated by `?` up to main.
Fail(k) ==
    /\ err' = k
    /\ pc' = AfterError(cmd)
    /\ Gone

\* The function main's if-chain calls for the subcommand (lines 238-248); `current`
\* is done within main.
dispatch(c) ==
    CASE c = "run"     -> "run_parse"
      [] c = "next"    -> "next_parse"
      [] c = "toggle"  -> "toggle_parse"
      [] OTHER         -> "exit"

\* main's config after the flags are applied (lines 221-231).
main_config(f, a, d) ==
    [parse_config(f) EXCEPT !.duration = IF d # None THEN d ELSE @,
                            !.active_dir = IF a # None THEN a ELSE @]

\* The binary is started with subcommand c and flags --active a, --duration d:
\* main parses the config, applies the flags, saves the config back (221-234),
\* then takes the subcommand: `current` prints (247), the others go on in their
\* function.
main(c, a, d) ==
    /\ pc \in {"idle", "exit"}
    /\ inv < MaxInvocations
    /\ inv' = inv + 1
    /\ cmd' = c
    /\ IF c = "toggle" /\ a = None
       THEN UNCHANGED <<row_start, row_len>>
       ELSE row_start' = 0 /\ row_len' = 0
    /\ \/ /\ err' = "ConfigError"
          /\ pc' = "exit"
          /\ UNCHANGED <<file, out>>
       \/ /\ a = Some(-1)
          /\ err' = "ArgError"
          /\ pc' = "exit"
          /\ UNCHANGED <<file, out>>
       \/ /\ a # Some(-1)
          /\ file' = main_config(file, a, d)
          /\ err' = "none"
          /\ pc' = dispatch(c)
          /\ out' = IF c = "current"
                    THEN Some(unwrap_or(current(main_config(file, a, d)), <<>>))
                    ELSE out
    /\ UNCHANGED <<cfg, cur, gs, wallpaper, interval, cycles, edit>>

\* `let mut config = parse_config(&config_str)?` of run (104) and next (131).
StepParse(at, to) ==
    /\ pc = at
    /\ \/ Fail("ConfigError")
       \/ /\ cfg' = parse_config(file)
          /\ pc' = to
          /\ gs' = "none"
          /\ edit' = IF edit = None THEN None ELSE Some([edit[1] EXCEPT !.age = 1])
          /\ UNCHANGED <<err, cur, interval, cycles>>
    /\ UNCHANGED <<file, cmd, wallpaper, out, inv, row_start, row_len>>

\* `let current = get_next(..)?` of run (107) and next (133): get_next parses the
\* file again and returns the cached entry or a fresh pick.
StepGetNext(at, to) ==
    /\ pc = at
    /\ LET config == parse_config(file) IN
       \/ Fail("ConfigError")
       \/ /\ ~get_next_in_range(config)
          /\ Fail("panic")
       \/ /\ get_next_in_range(config)
          /\ get_next(config) = {}
          /\ Fail("SelectionError")
       \/ /\ get_next_in_range(config)
          /\ \E uri \in get_next(config) : cur' = uri
          /\ pc' = to
          /\ UNCHANGED <<err, cfg, gs, interval, cycles, edit>>
    /\ UNCHANGED <<file, cmd, wallpaper, out, inv, row_start, row_len>>

\* `set_wallpaper(&current)?` of run (110) and next (134): gsettings exits 0 and the
\* background is set, exits non-zero and it is not, or cannot be run at all.
StepSet(at, to) ==
    /\ pc = at
    /\ \E outcome \in {"ok", "nonzero", "spawn_failed"} :
          /\ wallpaper' = IF outcome = "ok" THEN cur ELSE wallpaper
          /\ IF set_wallpaper_fails(outcome)
             THEN Fail("ApplyError")
             ELSE /\ gs' = outcome
                  /\ pc' = to
                  /\ UNCHANGED <<err, cfg, cur, interval, cycles, edit>>
    /\ UNCHANGED <<file, cmd, out, inv, row_start, row_len>>

\* `config.current = Some(current); write_config(..)?` of run (113-114) and next
\* (136-137).
StepSave(at, to) ==
    /\ pc = at
    /\ \/ Fail("ConfigError") /\ UNCHANGED file
       \/ /\ cfg' = [cfg EXCEPT !.current = Some(cur)]
          /\ file' = cfg'
          /\ pc' = to
          /\ UNCHANGED <<err, cur, gs, interval, cycles, edit>>
    /\ UNCHANGED <<cmd, wallpaper, out, inv, row_start, row_len>>

\* `cache_next(..)?` of run (117) and next (139): parse the file, pick one wallpaper
\* per directory, save them as `next`.
StepCache(at, to) ==
    /\ pc = at
    /\ LET config == parse_config(file) IN
       \/ Fail("ConfigError") /\ UNCHANGED file
       \/ /\ cache_next_picks(config.dirs) = {}
          /\ Fail("SelectionError")
          /\ UNCHANGED file
       \/ /\ \E nx \in cache_next_picks(config.dirs) :
                file' = [config EXCEPT !.next = Some(nx)]
          /\ pc' = to
          /\ UNCHANGED <<err, cfg, cur, gs, interval, cycles, edit>>
    /\ UNCHANGED <<cmd, wallpaper, out, inv, row_start, row_len>>

\* run, lines 120-122: the interval of the config parsed at the top of the iteration.
RunDuration ==
    /\ pc = "run_sleep"
    /\ LET minutes == parse_duration(unwrap_or(cfg.duration, "10m")) IN
       IF minutes < 0
       THEN Fail("DurationError")
       ELSE /\ interval' = minutes
            /\ pc' = "run_sleeping"
            /\ UNCHANGED <<err, cfg, cur, gs, cycles, edit>>
    /\ UNCHANGED <<file, cmd, wallpaper, out, inv, row_start, row_len>>

\* run, line 124, and main's loop (239-241): the sleep ends, the next iteration starts.
RunWake ==
    /\ pc = "run_sleeping"
    /\ cycles + 1 < MaxCycles
    /\ cycles' = cycles + 1
    /\ pc' = "run_parse"
    /\ UNCHANGED <<file, cmd, cfg, cur, gs, wallpaper, interval, err, out, inv,
                   row_start, row_len, edit>>

\* The run loop has no exit of its own: the process is ended from outside.
Kill ==
    /\ pc = "run_sleeping"
    /\ pc' = "exit"
    /\ Gone
    /\ UNCHANGED <<file, cmd, wallpaper, err, out, inv, row_start, row_len>>

\* One iteration of the change-wallpaper-and-sleep cycle (lines 102-127).
run ==
    \/ StepParse("run_parse", "run_get_next")
    \/ StepGetNext("run_get_next", "run_set")
    \/ StepSet("run_set", "run_save")
    \/ StepSave("run_save", "run_cache")
    \/ StepCache("run_cache", "run_sleep")
    \/ RunDuration
    \/ RunWake

\* next's `Ok(())` (141), passed up by toggle (162) and main (250).
NextReturn ==
    /\ pc = "next_done"
    /\ pc' = "exit"
    /\ Gone
    /\ UNCHANGED <<file, cmd, wallpaper, err, out, inv, row_start, row_len>>

\* Choose and apply a new wallpaper (lines 130-142); toggle ends in it too.
next ==
    \/ StepParse("next_parse", "next_get_next")
    \/ StepGetNext("next_get_next", "next_set")
    \/ StepSet("next_set", "next_save")
    \/ StepSave("next_save", "next_cache")
    \/ StepCache("next_cache", "next_done")
    \/ NextReturn

\* toggle, lines 146-154: parse the config and move active_dir on.
ToggleParse ==
    /\ pc = "toggle_parse"
    /\ \/ Fail("ConfigError")
       \/ /\ LET config == parse_config(file) IN
             cfg' = [config EXCEPT !.active_dir =
                        Some(toggle_index(unwrap_or(config.active_dir, 0),
                                          Len(config.dirs)))]
          /\ pc' = "toggle_write"
          /\ UNCHANGED <<err, cur, gs, interval, cycles, edit>>
    /\ UNCHANGED <<file, cmd, wallpaper, out, inv, row_start, row_len>>

\* toggle, lines 157-160: save the new index, then go on to next.
ToggleWrite ==
    /\ pc = "toggle_write"
    /\ \/ Fail("ConfigError") /\ UNCHANGED <<file, row_start, row_len>>
       \/ /\ file' = cfg
          /\ pc' = "next_parse"
          /\ row_len' = row_len + 1
          /\ row_start' = IF row_len = 0 THEN unwrap_or(file.active_dir, 0)
                          ELSE row_start
          /\ UNCHANGED <<err, cfg, cur, gs, interval, cycles, edit>>
    /\ UNCHANGED <<cmd, wallpaper, out, inv>>

toggle == ToggleParse \/ ToggleWrite

\* Edits the user makes to the file while a run loop sleeps.
MaxEdits == 1

\* The user changes dirs, active_dir or duration in the file while the loop sleeps,
\* keeping the record valid and leaving `current` and `next` as they are.
ExternalEdit ==
    /\ pc = "run_sleeping"
    /\ (IF edit = None THEN 0 ELSE edit[1].n) < MaxEdits
    /\ \E dirs \in DirLists, a \in 0..(MaxDirs - 1), du \in {"5m", "1h"} :
          /\ a < Len(dirs)
          /\ \/ dirs # file.dirs /\ Some(a) = file.active_dir /\ Some(du) = file.duration
             \/ dirs = file.dirs /\ Some(a) # file.active_dir /\ Some(du) = file.duration
             \/ dirs = file.dirs /\ Some(a) = file.active_dir /\ Some(du) # file.duration
          /\ file' = [file EXCEPT !.dirs = dirs, !.active_dir = Some(a),
                                  !.duration = Some(du)]
          /\ edit' = Some([dirs |-> dirs, active_dir |-> Some(a),
                           duration |-> Some(du), age |-> 0,
                           n |-> (IF edit = None THEN 0 ELSE edit[1].n) + 1])
    /\ UNCHANGED <<pc, cmd, cfg, cur, gs, wallpaper, interval, err, out, inv, cycles,
                   row_start, row_len>>

\* ------------------------------------------------------------ specifications
Commands == {"run", "next", "toggle", "current", "none"}

\* --active: absent, an index, or a string that is no usize ("-1").
ActiveArgs == {None} \cup {Some(i) : i \in -1..MaxDirs}

\* --duration: absent, or a string that is no duration.
DurationArgs == {None, Some("soon")}

Step == run \/ next \/ toggle \/ Kill

\* Any sequence of invocations, one at a time, the tool the file's only writer.
Next ==
    \/ \E c \in Commands, a \in ActiveArgs, d \in DurationArgs : main(c, a, d)
    \/ Step

Spec == Init /\ [][Next]_vars

\* The same, with --active given only indices of the file's dirs.
NextValid ==
    \/ \E c \in Commands, a \in ActiveArgs, d \in DurationArgs :
          /\ a # None => (0 <= a[1] /\ a[1] < Len(file.dirs))
          /\ main(c, a, d)
    \/ Step

SpecValid == Init /\ [][NextValid]_vars

\* The same again, with the file edited from outside while a run loop sleeps.
NextEdit == NextValid \/ ExternalEdit

SpecEdit == Init /\ [][NextEdit]_vars

\* ------------------------------------------------------------------ claims
\* The positions of a cycle at which get_next has returned and `current` is set.
AfterGetNext ==
    {"run_set", "run_save", "run_cache", "run_sleep", "run_sleeping",
     "next_set", "next_save", "next_cache", "next_done"}

\* The positions of a cycle at which set_wallpaper has returned Ok.
AfterSet == AfterGetNext \ {"run_set", "next_set"}

\* The positions at which a cycle has done all its work (cache_next returned Ok).
CycleDone == {"run_sleep", "run_sleeping", "next_done"}

\* The positions inside next.
InNext == {"next_parse", "next_get_next", "next_set", "next_save", "next_cache",
           "next_done"}

\* entry i of `nx` is a file of dirs[i], one entry per directory.
OnePickPerDir(nx, dirs) ==
    /\ Len(nx) = Len(dirs)
    /\ \A i \in 1..Len(dirs) : nx[i] \in select_new(dirs[i])

\* C1: in every persisted configuration the tool's invocations reach (with the
\* --active and --duration flags), active_index < len(directories).
C1_ActiveIndexInRange ==
    file.active_dir # None => file.active_dir[1] < Len(file.dirs)

\* C2: after a toggle the persisted active_index is within 0..len(directories)-1,
\* and after exactly len(directories) toggles in a row it is again the value it
\* had before the first of them.
C2_ToggleRoundTrip ==
    row_len >= 1 =>
        /\ file.active_dir # None
        /\ 0 <= file.active_dir[1]
        /\ file.active_dir[1] < Len(file.dirs)
        /\ row_len = Len(file.dirs) => file.active_dir = Some(row_start)

\* C3: toggle sets the persisted active_index to (old + 1) modulo len(directories),
\* and has persisted it, nothing yet applied, when it goes on to next.
C3_ToggleModulo ==
    [][(pc = "toggle_write" /\ pc' = "next_parse") =>
          /\ file'.active_dir =
                Some((unwrap_or(file.active_dir, 0) + 1) % Len(file.dirs))
          /\ wallpaper' = wallpaper]_vars

\* C4: what a next or a toggle applies and records as current is a file of the
\* directory active at that time, directories[active_index], cache or no cache;
\* next itself leaves active_index as it is (a toggle has moved it before).
C4_AppliedFromActiveDir ==
    /\ [](pc \in AfterGetNext \cap InNext =>
            /\ file.active_dir # None
            /\ file.active_dir[1] < Len(file.dirs)
            /\ cur \in select_new(file.dirs[file.active_dir[1] + 1])
            /\ gs = "ok" => wallpaper = cur
            /\ pc \in {"next_cache", "next_done"} => file.current = Some(cur))
    /\ [][(pc \in InNext) => (file'.active_dir = file.active_dir)]_vars

\* A toggle that found a cache has moved to the second directory and applied its pick.
C4_Witness ==
    /\ cmd = "toggle"
    /\ pc = "next_done"
    /\ cfg.next # None
    /\ file.active_dir = Some(1)
    /\ gs = "ok"

\* C5: a non-zero exit of the background-setting command fails the cycle: a cycle
\* that goes on past set_wallpaper (and records the wallpaper) had it exit 0.
C5_NonZeroExitAborts ==
    pc \in AfterSet => gs = "ok"

C7_RunFailureTerminates ==
    /\ []((cmd = "run" /\ err # "none") => pc = "exit")
    /\ [][(cmd = "run" /\ err # "none" /\ inv' = inv) =>
            (file' = file /\ wallpaper' = wallpaper /\ pc' = "exit")]_vars

\* A run loop that applied and cached, then failed on its interval.
C7_Witness ==
    /\ cmd = "run"
    /\ pc = "exit"
    /\ err = "DurationError"
    /\ file.current # None
    /\ file.next # None

\* C8: a cycle applies the cache's entry for the active directory when the loaded
\* config has a cache, and else a pick from directories[active_index]; when its
\* work is done the file's current is that wallpaper and its next has one entry
\* per directory, entry i a file of directories[i].
C8_CycleResult ==
    /\ pc \in AfterGetNext =>
          /\ cfg.active_dir # None
          /\ IF cfg.next # None
             THEN /\ cfg.active_dir[1] < Len(cfg.next[1])
                  /\ cur = cfg.next[1][cfg.active_dir[1] + 1]
             ELSE /\ cfg.active_dir[1] < Len(cfg.dirs)
                  /\ cur \in select_new(cfg.dirs[cfg.active_dir[1] + 1])
          /\ gs = "ok" => wallpaper = cur
    /\ pc \in CycleDone =>
          /\ file.current = Some(cur)
          /\ file.next # None
          /\ OnePickPerDir(file.next[1], file.dirs)

\* The second iteration of a run loop has applied the entry the first one cached.
C8_Witness ==
    /\ pc = "run_sleeping"
    /\ cycles = 1
    /\ cfg.next # None
    /\ Len(file.dirs) > 1
    /\ gs = "ok"

\* C9: an edit of dirs, active_dir or duration made while the run loop sleeps stays
\* in the file, and the very next cycle applies a wallpaper of the edited
\* directories[active_index] and sleeps for the edited interval.
C9_EditTakesEffect ==
    edit # None =>
        LET e == edit[1] IN
        /\ file.dirs = e.dirs
        /\ file.active_dir = e.active_dir
        /\ file.duration = e.duration
        /\ (e.age = 1 /\ pc \in AfterGetNext) =>
              cur \in select_new(e.dirs[e.active_dir[1] + 1])
        /\ (e.age = 1 /\ pc = "run_sleeping") =>
              interval = parse_duration(e.duration[1])

\* C10: from a valid config, the tool the only writer and --active within the
\* directories, get_next's index is always in range and nothing panics.
C10_NoIndexPanic ==
    /\ err # "panic"
    /\ unwrap_or(file.active_dir, 0) < Len(file.dirs)
    /\ file.next # None => unwrap_or(file.active_dir, 0) < Len(file.next[1])
    /\ pc \in {"run_get_next", "next_get_next"} =>
          get_next_in_range(parse_config(file))

\* A toggle has moved to the last directory and get_next is about to index the cache.
C10_Witness ==
    /\ cmd = "toggle"
    /\ pc = "next_get_next"
    /\ file.next # None
    /\ Len(file.dirs) > 1
    /\ file.active_dir = Some(Len(file.dirs) - 1)

====
